---- MODULE Spec2Model ----
(***************************************************************************)
(* StudyWave: seat-bounded course enrollment and QR-session attendance.    *)
(*                                                                         *)
(* Every HTTP handler is an async function: it runs on the Node event loop *)
(* until its next `await`, where other requests may run.  A request is     *)
(* therefore a sequence of atomic steps, one per database round trip, and  *)
(* the code between two awaits belongs to the step that follows the first. *)
(* The course collection is the shared MongoDB state, the attendance Map   *)
(* is the shared process memory.                                           *)
(***************************************************************************)
EXTENDS Integers, Sequences, FiniteSets, TLC

(***************************************************************************)
(* Bounds of the model: worker slots, the largest capacity, clock ticks of *)
(* TickMs, generated QR payloads, and requests received in all.            *)
(***************************************************************************)
MaxReq == 2
MaxCapacity == 2
MaxTicks == 2
MaxSessions == 1
MaxOps == 4
TickMs == 20 * 60 * 1000

Students == {"s1", "s2"}
Professors == {"p1", "p2"}
Users == Students \cup Professors

DayMs == 24 * 60 * 60 * 1000
StartMs == DayMs - 2 * TickMs

\* req.user.role, as the authentication layer attaches it to the request
role(u) == IF u \in Students THEN "student" ELSE "professor"

\* the ids that a request may name; only "c1" is stored
CourseIds == {"c1", "c0"}

Null == [id |-> "null"]

VARIABLES
  courses,            \* the Course collection: id -> document
  enrolledCourses,    \* User.enrolledCourses of every user, a set of course ids
  attendanceRecords,  \* the in-memory Map of the attendance controller
  issued,             \* the QR payloads that generate-qr has returned so far
  nextSession,        \* stands for the next fresh random sessionId
  now,                \* Date.now(), in milliseconds
  reqs,               \* the requests in flight, by worker slot
  resp,               \* the response sent last
  nops,               \* history: the number of requests received
  enrollResult        \* history: message of every student's last enroll response

vars == <<courses, enrolledCourses, attendanceRecords, issued, nextSession,
          now, reqs, resp, nops, enrollResult>>

----------------------------------------------------------------------------
(***************************************************************************)
(* The Course model.                                                       *)
(***************************************************************************)

\* Course.findById(id): the stored document, or null
findById(id) == IF id \in DOMAIN courses THEN courses[id] ELSE Null

\* the virtual `enrolledCount`
enrolledCount(course) ==
  Cardinality({i \in 1..Len(course.enrolledStudents) :
                 course.enrolledStudents[i].status = "enrolled"})

\* Array.prototype.find over enrolledStudents: index of the first record of
\* the student, 0 when there is none
findEnrollment(course, studentId) ==
  LET hits == {i \in 1..Len(course.enrolledStudents) :
                 course.enrolledStudents[i].student = studentId}
  IN IF hits = {} THEN 0 ELSE CHOOSE i \in hits : \A j \in hits : i <= j

NoDelta == [kind |-> "none", index |-> 0, student |-> "none", status |-> "none"]

\* an enrollStudent that appends a second record where it should reuse the
\* student's record
enrollStudentMethodPush(course, studentId) ==
  LET i == findEnrollment(course, studentId) IN
  IF i # 0 /\ course.enrolledStudents[i].status = "enrolled"
  THEN [error |-> "Student is already enrolled in this course", delta |-> NoDelta]
  ELSE IF i = 0 /\ enrolledCount(course) >= course.capacity
       THEN [error |-> "Course is at full capacity", delta |-> NoDelta]
       ELSE [error |-> "",
             delta |-> [kind |-> "push", index |-> 0, student |-> studentId,
                        status |-> "enrolled"]]

\* courseSchema.methods.enrollStudent up to the call of save(): either the
\* thrown error, or the change the document has tracked for save()
enrollStudentMethod(course, studentId) ==
  LET i == findEnrollment(course, studentId) IN
  IF i # 0
  THEN IF course.enrolledStudents[i].status = "enrolled"
       THEN [error |-> "Student is already enrolled in this course", delta |-> NoDelta]
       ELSE [error |-> "",
             delta |-> [kind |-> "set", index |-> i, student |-> studentId,
                        status |-> "enrolled"]]
  ELSE IF enrolledCount(course) >= course.capacity
       THEN [error |-> "Course is at full capacity", delta |-> NoDelta]
       ELSE [error |-> "",
             delta |-> [kind |-> "push", index |-> 0, student |-> studentId,
                        status |-> "enrolled"]]

\* courseSchema.methods.dropStudent up to the call of save(); assigning the
\* value a path already has marks nothing modified
dropStudentMethod(course, studentId) ==
  LET i == findEnrollment(course, studentId) IN
  IF i = 0
  THEN [error |-> "Student is not enrolled in this course", delta |-> NoDelta]
  ELSE IF course.enrolledStudents[i].status = "dropped"
       THEN [error |-> "", delta |-> NoDelta]
       ELSE [error |-> "",
             delta |-> [kind |-> "set", index |-> i, student |-> studentId,
                        status |-> "dropped"]]

\* document.save() of a loaded document sends only the tracked change:
\* a push becomes $push and increments the version key __v without testing
\* it; a change of an existing array element becomes $set on its position
\* and is applied only where __v still has the loaded value (VersionError
\* otherwise); no change sends nothing.
saveConflict(stored, loaded, delta) ==
  delta.kind = "set" /\ stored.v # loaded.v

\* a save() that writes the whole loaded document back
saveWhole(stored, loaded, delta) ==
  CASE delta.kind = "push" ->
         [loaded EXCEPT !.enrolledStudents =
                           Append(@, [student |-> delta.student, status |-> delta.status]),
                        !.v = @ + 1]
    [] delta.kind = "set" ->
         [loaded EXCEPT !.enrolledStudents[delta.index].status = delta.status]
    [] OTHER -> stored

save(stored, loaded, delta) ==
  CASE delta.kind = "push" ->
         [stored EXCEPT !.enrolledStudents =
                           Append(@, [student |-> delta.student, status |-> delta.status]),
                        !.v = @ + 1]
    [] delta.kind = "set" ->
         [stored EXCEPT !.enrolledStudents[delta.index].status = delta.status]
    [] OTHER -> stored

----------------------------------------------------------------------------
(***************************************************************************)
(* Requests in flight and their responses.                                 *)
(***************************************************************************)
NoQr == [wellFormed |-> FALSE, type |-> "", courseId |-> "", courseCode |-> "",
         professor |-> "", timestamp |-> -1, sessionId |-> -1]

\* req.body of an update: the fields it has, and their values
NoBody == [fields |-> {}, capacity |-> 0, isPublished |-> FALSE,
           enrolledStudents |-> <<>>]

NoReq == [op |-> "none", user |-> "none", cid |-> "none", pc |-> "free",
          snap |-> Null, qr |-> NoQr, body |-> NoBody]

NoResp == [op |-> "none", user |-> "none", status |-> 0, message |-> ""]

Free(r) == reqs[r].pc = "free"

\* a new request takes the lowest free worker slot; the model follows MaxOps
\* requests in all
Slot(r) == nops < MaxOps /\ Free(r) /\ \A q \in 1..(r - 1) : ~Free(q)

Respond(r, status, message) ==
  /\ resp' = [op |-> reqs[r].op, user |-> reqs[r].user, status |-> status,
              message |-> message]
  /\ reqs' = [reqs EXCEPT ![r] = NoReq]

(***************************************************************************)
(* QR payloads and the attendance Map.                                     *)
(***************************************************************************)

\* the validity the generate-qr response announces: 30 minutes
ValidityMs == 30 * 60 * 1000

\* generateQRCodeData(course): the JSON text of the payload, here the fields
\* a reader of the text finds in it
generateQRCodeData(course, t, sid) ==
  [wellFormed |-> TRUE, type |-> "course_attendance", courseId |-> course.id,
   courseCode |-> course.courseCode, professor |-> course.professor,
   timestamp |-> t, sessionId |-> sid]

\* what a student can submit without any issued payload: text that is no
\* JSON, and a payload written by hand from the course's public id and code
BadJson == [NoQr EXCEPT !.type = "garbage"]
HandMade == [wellFormed |-> TRUE, type |-> "course_attendance", courseId |-> "c1",
             courseCode |-> "CS101", professor |-> "", timestamp |-> -1,
             sessionId |-> 0]
Forged == {BadJson, HandMade}

\* Date.prototype.toDateString(): the calendar day of an instant
toDateString(t) == t \div DayMs

\* `new Date()` evaluated again later in the same step, the first having
\* given t: the clock may have moved on by then
laterReads(t) == {t, t + TickMs}

\* `${course._id}_${req.user._id}_${today}`
attendanceKey(courseId, userId, t) == <<courseId, userId, toDateString(t)>>

\* a set that forgets the other entries
MapSetOnly(map, key, value) == [k \in {key} |-> value]

\* Map.prototype.set
MapSet(map, key, value) ==
  [k \in DOMAIN map \cup {key} |-> IF k = key THEN value ELSE map[k]]

\* recordInMap without its duplicate test
recordInMapNoTest(map, course, userId, qrData, t, d) ==
  [error |-> "",
   map |-> [k \in DOMAIN map \cup {attendanceKey(course.id, userId, t)} |->
              IF k = attendanceKey(course.id, userId, t)
              THEN [courseId |-> course.id, studentId |-> userId, date |-> d,
                    status |-> "present", qrSessionId |-> qrData.sessionId,
                    recordedAt |-> d]
              ELSE map[k]]]

\* lines 535-556 of recordAttendance: the duplicate test on the key of the
\* day read at t, and the insert of a record dated d, read afterwards
recordInMap(map, course, userId, qrData, t, d) ==
  LET key == attendanceKey(course.id, userId, t) IN
  IF key \in DOMAIN map
  THEN [error |-> "Attendance already recorded for today", map |-> map]
  ELSE [error |-> "",
        map |-> MapSet(map, key,
                       [courseId |-> course.id, studentId |-> userId, date |-> d,
                        status |-> "present", qrSessionId |-> qrData.sessionId,
                        recordedAt |-> d])]

\* data.attendance of the response of a successful recordAttendance
attendanceResponse(attendanceRecord) ==
  [date |-> attendanceRecord.date, status |-> attendanceRecord.status]

(***************************************************************************)
(* getAttendanceStats, from the course it read and the Map.  A rate is a   *)
(* number with two decimals, here the integer of its hundredths.           *)
(***************************************************************************)

\* no startDate or endDate in the query
NoDate == -1

\* the records of the Map that the loop of lines 808-819 keeps
courseAttendance(course, map, startDate, endDate) ==
  {k \in DOMAIN map :
     /\ map[k].courseId = course.id
     /\ ~(startDate # NoDate /\ map[k].date < startDate)
     /\ ~(endDate # NoDate /\ map[k].date > endDate)}

\* Math.round(x * 100) / 100 of the quotient num / den, in hundredths
roundHundredths(num, den) == (2 * 100 * num + den) \div (2 * den)

RECURSIVE sumRates(_)
sumRates(stats) ==
  IF stats = <<>> THEN 0 ELSE Head(stats).attendanceRate + sumRates(Tail(stats))

getAttendanceStats(course, map, startDate, endDate) ==
  LET kept == courseAttendance(course, map, startDate, endDate)
      totalSessions == Cardinality({toDateString(map[k].date) : k \in kept})
      enrolledStudents == SelectSeq(course.enrolledStudents,
                                    LAMBDA e : e.status = "enrolled")
      studentStats ==
        [i \in 1..Len(enrolledStudents) |->
           LET studentAttendance ==
                 {k \in kept : map[k].studentId = enrolledStudents[i].student}
           IN [student |-> enrolledStudents[i].student,
               attendedSessions |-> Cardinality(studentAttendance),
               totalSessions |-> totalSessions,
               attendanceRate |->
                 IF totalSessions > 0
                 THEN roundHundredths(Cardinality(studentAttendance) * 100,
                                      totalSessions)
                 ELSE 0]]
  IN [overallStats |->
        [totalEnrolledStudents |-> Len(enrolledStudents),
         totalSessions |-> totalSessions,
         averageAttendanceRate |->
           IF Len(studentStats) > 0
           THEN (2 * sumRates(studentStats) + Len(studentStats))
                  \div (2 * Len(studentStats))
           ELSE 0,
         totalAttendanceRecords |-> Cardinality(kept)],
      studentStats |-> studentStats]

\* an ownership test that lets every caller through
isOwnerAny(course, userId) == TRUE

\* course.professor.toString() !== req.user._id.toString(), negated
isOwner(course, userId) == course.professor = userId

\* a response sent before the handler has awaited anything
RespondNow(op, u, status, message) ==
  resp' = [op |-> op, user |-> u, status |-> status, message |-> message]

Init ==
  /\ \E cap \in 1..MaxCapacity :
       courses = [c \in {"c1"} |->
                    [id |-> c, professor |-> "p1", courseCode |-> "CS101",
                     capacity |-> cap, isActive |-> TRUE, isPublished |-> TRUE,
                     enrolledStudents |-> <<>>, v |-> 0]]
  /\ enrolledCourses = [u \in Users |-> {}]
  /\ attendanceRecords = <<>>
  /\ issued = {}
  /\ nextSession = 1
  /\ now = StartMs
  /\ reqs = [r \in 1..MaxReq |-> NoReq]
  /\ resp = NoResp
  /\ nops = 0
  /\ enrollResult = [s \in Students |-> ""]

----------------------------------------------------------------------------
(***************************************************************************)
(* POST /courses/:id/enroll                                                *)
(***************************************************************************)

\* enrollStudent up to `await Course.findById(id)`
EnrollFind(r, u, id) ==
  /\ Slot(r)
  /\ reqs' = [reqs EXCEPT ![r] = [NoReq EXCEPT !.op = "enroll", !.user = u, !.cid = id,
                                                !.pc = "found", !.snap = findById(id)]]
  /\ nops' = nops + 1
  /\ UNCHANGED <<courses, enrolledCourses, attendanceRecords, issued,
                 nextSession, now, resp, enrollResult>>

\* an enrollStudent handler without the test of isPublished
EnrollSaveUnpublished(r) ==
  LET course == reqs[r].snap
      u == reqs[r].user
      m == enrollStudentMethod(course, u)
  IN
  /\ reqs[r].op = "enroll" /\ reqs[r].pc = "found"
  /\ IF course = Null
     THEN Respond(r, 404, "Course not found") /\ UNCHANGED courses
     ELSE IF role(u) # "student"
     THEN Respond(r, 403, "Only students can enroll in courses") /\ UNCHANGED courses
     ELSE IF m.error # ""
     THEN Respond(r, 400, m.error) /\ UNCHANGED courses
     ELSE IF saveConflict(courses[course.id], course, m.delta)
     THEN Respond(r, 400, "VersionError") /\ UNCHANGED courses
     ELSE /\ courses' = [courses EXCEPT ![course.id] = save(@, course, m.delta)]
          /\ reqs' = [reqs EXCEPT ![r].pc = "saved"]
          /\ UNCHANGED resp
  /\ UNCHANGED <<enrolledCourses, attendanceRecords, issued, nextSession, now,
                 nops>>
  /\ enrollResult' = IF Free(r)' THEN [enrollResult EXCEPT ![u] = resp'.message]
                              ELSE enrollResult

\* enrollStudent from the result of findById to the result of course.save()
EnrollSave(r) ==
  LET course == reqs[r].snap
      u == reqs[r].user
      m == enrollStudentMethod(course, u)
  IN
  /\ reqs[r].op = "enroll" /\ reqs[r].pc = "found"
  /\ IF course = Null
     THEN Respond(r, 404, "Course not found") /\ UNCHANGED courses
     ELSE IF ~course.isPublished
     THEN Respond(r, 400, "Course is not published") /\ UNCHANGED courses
     ELSE IF role(u) # "student"
     THEN Respond(r, 403, "Only students can enroll in courses") /\ UNCHANGED courses
     ELSE IF m.error # ""
     THEN Respond(r, 400, m.error) /\ UNCHANGED courses
     ELSE IF saveConflict(courses[course.id], course, m.delta)
     THEN Respond(r, 400, "VersionError") /\ UNCHANGED courses
     ELSE /\ courses' = [courses EXCEPT ![course.id] = save(@, course, m.delta)]
          /\ reqs' = [reqs EXCEPT ![r].pc = "saved"]
          /\ UNCHANGED resp
  /\ UNCHANGED <<enrolledCourses, attendanceRecords, issued, nextSession, now,
                 nops>>
  /\ enrollResult' = IF Free(r)' THEN [enrollResult EXCEPT ![u] = resp'.message]
                              ELSE enrollResult

\* an enrollStudent whose profile update waits until no other request is in
\* flight
EnrollProfileWaiting(r) ==
  /\ reqs[r].op = "enroll" /\ reqs[r].pc = "saved"
  /\ \A q \in 1..MaxReq \ {r} : Free(q)
  /\ enrolledCourses' = [enrolledCourses EXCEPT ![reqs[r].user] = @ \cup {reqs[r].snap.id}]
  /\ Respond(r, 200, "Successfully enrolled in course")
  /\ UNCHANGED <<courses, attendanceRecords, issued, nextSession, now, nops>>
  /\ enrollResult' = [enrollResult EXCEPT ![reqs[r].user] = resp'.message]

\* enrollStudent from the result of save() on: $addToSet on the profile
EnrollProfile(r) ==
  /\ reqs[r].op = "enroll" /\ reqs[r].pc = "saved"
  /\ enrolledCourses' = [enrolledCourses EXCEPT ![reqs[r].user] = @ \cup {reqs[r].snap.id}]
  /\ Respond(r, 200, "Successfully enrolled in course")
  /\ UNCHANGED <<courses, attendanceRecords, issued, nextSession, now, nops>>
  /\ enrollResult' = [enrollResult EXCEPT ![reqs[r].user] = resp'.message]

(***************************************************************************)
(* POST /courses/:id/drop                                                  *)
(***************************************************************************)
DropFind(r, u, id) ==
  /\ Slot(r)
  /\ reqs' = [reqs EXCEPT ![r] = [NoReq EXCEPT !.op = "drop", !.user = u, !.cid = id,
                                                !.pc = "found", !.snap = findById(id)]]
  /\ nops' = nops + 1
  /\ UNCHANGED <<courses, enrolledCourses, attendanceRecords, issued,
                 nextSession, now, resp, enrollResult>>

DropSave(r) ==
  LET course == reqs[r].snap
      u == reqs[r].user
      m == dropStudentMethod(course, u)
  IN
  /\ reqs[r].op = "drop" /\ reqs[r].pc = "found"
  /\ IF course = Null
     THEN Respond(r, 404, "Course not found") /\ UNCHANGED courses
     ELSE IF role(u) # "student"
     THEN Respond(r, 403, "Only students can drop courses") /\ UNCHANGED courses
     ELSE IF m.error # ""
     THEN Respond(r, 400, m.error) /\ UNCHANGED courses
     ELSE IF saveConflict(courses[course.id], course, m.delta)
     THEN Respond(r, 400, "VersionError") /\ UNCHANGED courses
     ELSE /\ courses' = [courses EXCEPT ![course.id] = save(@, course, m.delta)]
          /\ reqs' = [reqs EXCEPT ![r].pc = "saved"]
          /\ UNCHANGED resp
  /\ UNCHANGED <<enrolledCourses, attendanceRecords, issued, nextSession, now,
                 nops, enrollResult>>

DropProfile(r) ==
  /\ reqs[r].op = "drop" /\ reqs[r].pc = "saved"
  /\ enrolledCourses' = [enrolledCourses EXCEPT ![reqs[r].user] = @ \ {reqs[r].snap.id}]
  /\ Respond(r, 200, "Successfully dropped from course")
  /\ UNCHANGED <<courses, attendanceRecords, issued, nextSession, now, nops,
                 enrollResult>>

(***************************************************************************)
(* POST /attendance/record                                                 *)
(***************************************************************************)

\* recordAttendance up to `await Course.findById(qrData.courseId)`
RecordFind(r, u, qrCodeData) ==
  /\ Slot(r)
  /\ nops' = nops + 1
  /\ IF ~qrCodeData.wellFormed
     THEN RespondNow("record", u, 400, "Invalid QR code format") /\ UNCHANGED reqs
     ELSE IF qrCodeData.courseId = "" \/ qrCodeData.courseCode = ""
             \/ qrCodeData.type # "course_attendance"
     THEN RespondNow("record", u, 400, "Invalid attendance QR code") /\ UNCHANGED reqs
     ELSE /\ reqs' = [reqs EXCEPT ![r] =
                        [NoReq EXCEPT !.op = "record", !.user = u,
                                      !.cid = qrCodeData.courseId, !.pc = "found",
                                      !.snap = findById(qrCodeData.courseId),
                                      !.qr = qrCodeData]]
          /\ UNCHANGED resp
  /\ UNCHANGED <<courses, enrolledCourses, attendanceRecords, issued,
                 nextSession, now, enrollResult>>

\* a recordAttendance without the test of isActive and isPublished
RecordCheckAnyCourse(r) ==
  LET course == reqs[r].snap
      u == reqs[r].user
      i == findEnrollment(course, u)
  IN
  /\ reqs[r].op = "record" /\ reqs[r].pc = "found"
  /\ \E d \in laterReads(now) :
     LET m == recordInMap(attendanceRecords, course, u, reqs[r].qr, now, d) IN
     IF course = Null
     THEN Respond(r, 404, "Course not found") /\ UNCHANGED attendanceRecords
     ELSE IF i = 0 \/ course.enrolledStudents[i].status # "enrolled"
     THEN Respond(r, 403, "You are not enrolled in this course")
          /\ UNCHANGED attendanceRecords
     ELSE IF m.error # ""
     THEN Respond(r, 400, m.error) /\ UNCHANGED attendanceRecords
     ELSE /\ attendanceRecords' = m.map
          /\ Respond(r, 200, "Attendance recorded successfully")
  /\ UNCHANGED <<courses, enrolledCourses, issued, nextSession, now, nops,
                 enrollResult>>

\* a recordAttendance that asks for a record of the student, of any status
RecordCheckAnyRecord(r) ==
  LET course == reqs[r].snap
      u == reqs[r].user
      i == findEnrollment(course, u)
  IN
  /\ reqs[r].op = "record" /\ reqs[r].pc = "found"
  /\ \E d \in laterReads(now) :
     LET m == recordInMap(attendanceRecords, course, u, reqs[r].qr, now, d) IN
     IF course = Null
     THEN Respond(r, 404, "Course not found") /\ UNCHANGED attendanceRecords
     ELSE IF ~course.isActive \/ ~course.isPublished
     THEN Respond(r, 400, "Course is not available for attendance")
          /\ UNCHANGED attendanceRecords
     ELSE IF i = 0
     THEN Respond(r, 403, "You are not enrolled in this course")
          /\ UNCHANGED attendanceRecords
     ELSE IF m.error # ""
     THEN Respond(r, 400, m.error) /\ UNCHANGED attendanceRecords
     ELSE /\ attendanceRecords' = m.map
          /\ Respond(r, 200, "Attendance recorded successfully")
  /\ UNCHANGED <<courses, enrolledCourses, issued, nextSession, now, nops,
                 enrollResult>>

\* recordAttendance from the result of findById to its response
RecordCheck(r) ==
  LET course == reqs[r].snap
      u == reqs[r].user
      i == findEnrollment(course, u)
  IN
  /\ reqs[r].op = "record" /\ reqs[r].pc = "found"
  /\ \E d \in laterReads(now) :
     LET m == recordInMap(attendanceRecords, course, u, reqs[r].qr, now, d) IN
     IF course = Null
     THEN Respond(r, 404, "Course not found") /\ UNCHANGED attendanceRecords
     ELSE IF ~course.isActive \/ ~course.isPublished
     THEN Respond(r, 400, "Course is not available for attendance")
          /\ UNCHANGED attendanceRecords
     ELSE IF i = 0 \/ course.enrolledStudents[i].status # "enrolled"
     THEN Respond(r, 403, "You are not enrolled in this course")
          /\ UNCHANGED attendanceRecords
     ELSE IF m.error # ""
     THEN Respond(r, 400, m.error) /\ UNCHANGED attendanceRecords
     ELSE /\ attendanceRecords' = m.map
          /\ Respond(r, 200, "Attendance recorded successfully")
  /\ UNCHANGED <<courses, enrolledCourses, issued, nextSession, now, nops,
                 enrollResult>>

(***************************************************************************)
(* POST /attendance/generate-qr/:id                                        *)
(***************************************************************************)
InFlight(op) == Cardinality({q \in 1..MaxReq : reqs[q].op = op})

\* generateAttendanceQR up to `await Course.findById(id)`; the model follows
\* MaxSessions generated payloads
GenerateFind(r, u, id) ==
  /\ Slot(r)
  /\ nextSession + InFlight("generate") <= MaxSessions
  /\ reqs' = [reqs EXCEPT ![r] = [NoReq EXCEPT !.op = "generate", !.user = u, !.cid = id,
                                                !.pc = "found", !.snap = findById(id)]]
  /\ nops' = nops + 1
  /\ UNCHANGED <<courses, enrolledCourses, attendanceRecords, issued,
                 nextSession, now, resp, enrollResult>>

\* a generateAttendanceQR that saves the course document with the payload
GenerateRespondSaving(r) ==
  LET course == reqs[r].snap
      u == reqs[r].user
  IN
  /\ reqs[r].op = "generate" /\ reqs[r].pc = "found"
  /\ IF course = Null
     THEN Respond(r, 404, "Course not found")
          /\ UNCHANGED <<issued, nextSession, courses>>
     ELSE IF ~isOwner(course, u)
     THEN Respond(r, 403, "You can only generate QR codes for your own courses")
          /\ UNCHANGED <<issued, nextSession, courses>>
     ELSE /\ issued' = issued \cup {generateQRCodeData(course, now, nextSession)}
          /\ nextSession' = nextSession + 1
          /\ courses' = [courses EXCEPT ![course.id].v = @ + 1]
          /\ Respond(r, 200, "QR code generated successfully")
  /\ UNCHANGED <<enrolledCourses, attendanceRecords, now, nops, enrollResult>>

\* generateAttendanceQR from the result of findById to its response; the
\* payload in the response is from then on in the hands of its readers
GenerateRespond(r) ==
  LET course == reqs[r].snap
      u == reqs[r].user
  IN
  /\ reqs[r].op = "generate" /\ reqs[r].pc = "found"
  /\ IF course = Null
     THEN Respond(r, 404, "Course not found") /\ UNCHANGED <<issued, nextSession>>
     ELSE IF ~isOwner(course, u)
     THEN Respond(r, 403, "You can only generate QR codes for your own courses")
          /\ UNCHANGED <<issued, nextSession>>
     ELSE /\ issued' = issued \cup {generateQRCodeData(course, now, nextSession)}
          /\ nextSession' = nextSession + 1
          /\ Respond(r, 200, "QR code generated successfully")
  /\ UNCHANGED <<courses, enrolledCourses, attendanceRecords, now, nops,
                 enrollResult>>

(***************************************************************************)
(* GET /attendance/course/:id/stats                                        *)
(***************************************************************************)
StatsFind(r, u, id) ==
  /\ Slot(r)
  /\ reqs' = [reqs EXCEPT ![r] = [NoReq EXCEPT !.op = "stats", !.user = u, !.cid = id,
                                                !.pc = "found", !.snap = findById(id)]]
  /\ nops' = nops + 1
  /\ UNCHANGED <<courses, enrolledCourses, attendanceRecords, issued,
                 nextSession, now, resp, enrollResult>>

StatsRespond(r) ==
  LET course == reqs[r].snap
      u == reqs[r].user
  IN
  /\ reqs[r].op = "stats" /\ reqs[r].pc = "found"
  /\ IF course = Null
     THEN Respond(r, 404, "Course not found")
     ELSE IF ~isOwner(course, u)
     THEN Respond(r, 403, "You can only view statistics for your own courses")
     ELSE Respond(r, 200, "statistics")
  /\ UNCHANGED <<courses, enrolledCourses, attendanceRecords, issued,
                 nextSession, now, nops, enrollResult>>

\* the wall clock
Tick ==
  /\ now < StartMs + MaxTicks * TickMs
  /\ now' = now + TickMs
  /\ UNCHANGED <<courses, enrolledCourses, attendanceRecords, issued,
                 nextSession, reqs, resp, nops, enrollResult>>

\* The callers of a route are the users its role guard lets through
\* (requireStudent, requireProfessor in the route files).
Next ==
  \/ \E r \in 1..MaxReq, u \in Students, id \in CourseIds : EnrollFind(r, u, id)
  \/ \E r \in 1..MaxReq : EnrollSave(r)
  \/ \E r \in 1..MaxReq : EnrollProfile(r)
  \/ \E r \in 1..MaxReq, u \in Students, id \in CourseIds : DropFind(r, u, id)
  \/ \E r \in 1..MaxReq : DropSave(r)
  \/ \E r \in 1..MaxReq : DropProfile(r)
  \/ \E r \in 1..MaxReq, u \in Students, qr \in issued \cup Forged : RecordFind(r, u, qr)
  \/ \E r \in 1..MaxReq : RecordCheck(r)
  \/ \E r \in 1..MaxReq, u \in Professors, id \in CourseIds : GenerateFind(r, u, id)
  \/ \E r \in 1..MaxReq : GenerateRespond(r)
  \/ \E r \in 1..MaxReq, u \in Professors, id \in CourseIds : StatsFind(r, u, id)
  \/ \E r \in 1..MaxReq : StatsRespond(r)
  \/ Tick

Spec == Init /\ [][Next]_vars

(***************************************************************************)
(* The same requests on a database that already holds the course in any    *)
(* state its schema allows: unpublished (the default), deactivated, and    *)
(* with a record of s1 in any status of the enum (`completed` is written   *)
(* by no code of the repository).  The handlers' own tests are exercised   *)
(* with every user as the caller of enroll, and with a hand-made payload   *)
(* that names a course id that is not stored.                              *)
(***************************************************************************)
Statuses == {"enrolled", "dropped", "completed"}

Rosters == {<<>>} \cup {<<[student |-> "s1", status |-> st]>> : st \in Statuses}

HandMadeUnknown == [HandMade EXCEPT !.courseId = "c0"]

InitStored ==
  /\ \E cap \in 1..MaxCapacity, active \in BOOLEAN, published \in BOOLEAN,
        roster \in Rosters :
       /\ courses = [c \in {"c1"} |->
                       [id |-> c, professor |-> "p1", courseCode |-> "CS101",
                        capacity |-> cap, isActive |-> active,
                        isPublished |-> published,
                        enrolledStudents |-> roster, v |-> 0]]
       /\ enrolledCourses =
            [u \in Users |->
               IF roster # <<>> /\ roster[1].student = u /\ roster[1].status = "enrolled"
               THEN {"c1"} ELSE {}]
  /\ attendanceRecords = <<>>
  /\ issued = {}
  /\ nextSession = 1
  /\ now = StartMs
  /\ reqs = [r \in 1..MaxReq |-> NoReq]
  /\ resp = NoResp
  /\ nops = 0
  /\ enrollResult = [s \in Students |-> ""]

NextStored ==
  \/ \E r \in 1..MaxReq, u \in Users, id \in CourseIds : EnrollFind(r, u, id)
  \/ \E r \in 1..MaxReq : EnrollSave(r)
  \/ \E r \in 1..MaxReq : EnrollProfile(r)
  \/ \E r \in 1..MaxReq, u \in Students, id \in CourseIds : DropFind(r, u, id)
  \/ \E r \in 1..MaxReq : DropSave(r)
  \/ \E r \in 1..MaxReq : DropProfile(r)
  \/ \E r \in 1..MaxReq, u \in Students, qr \in Forged \cup {HandMadeUnknown} :
       RecordFind(r, u, qr)
  \/ \E r \in 1..MaxReq : RecordCheck(r)

SpecStored == InitStored /\ [][NextStored]_vars

(***************************************************************************)
(* The same requests with a database that may fail: course.save() and      *)
(* User.findByIdAndUpdate() may reject with a driver error instead of      *)
(* writing.  Both are awaited inside the inner try of the handlers, whose  *)
(* catch answers 400 with the error's message.                             *)
(***************************************************************************)
StorageError == "MongoNetworkError"

\* enrollStudent when course.save() rejects
EnrollSaveFails(r) ==
  LET course == reqs[r].snap
      u == reqs[r].user
  IN
  /\ reqs[r].op = "enroll" /\ reqs[r].pc = "found"
  /\ course # Null /\ course.isPublished /\ role(u) = "student"
  /\ enrollStudentMethod(course, u).error = ""
  /\ Respond(r, 400, StorageError)
  /\ enrollResult' = [enrollResult EXCEPT ![u] = StorageError]
  /\ UNCHANGED <<courses, enrolledCourses, attendanceRecords, issued,
                 nextSession, now, nops>>

\* enrollStudent when course.save() has written and the profile update rejects
EnrollProfileFails(r) ==
  /\ reqs[r].op = "enroll" /\ reqs[r].pc = "saved"
  /\ Respond(r, 400, StorageError)
  /\ enrollResult' = [enrollResult EXCEPT ![reqs[r].user] = StorageError]
  /\ UNCHANGED <<courses, enrolledCourses, attendanceRecords, issued,
                 nextSession, now, nops>>

\* dropStudent when course.save() rejects; a save() of an unmodified document
\* sends nothing and cannot fail
DropSaveFails(r) ==
  LET course == reqs[r].snap
      u == reqs[r].user
      m == dropStudentMethod(course, u)
  IN
  /\ reqs[r].op = "drop" /\ reqs[r].pc = "found"
  /\ course # Null /\ role(u) = "student"
  /\ m.error = "" /\ m.delta # NoDelta
  /\ Respond(r, 400, StorageError)
  /\ UNCHANGED <<courses, enrolledCourses, attendanceRecords, issued,
                 nextSession, now, nops, enrollResult>>

\* dropStudent when course.save() has written and the profile update rejects
DropProfileFails(r) ==
  /\ reqs[r].op = "drop" /\ reqs[r].pc = "saved"
  /\ Respond(r, 400, StorageError)
  /\ UNCHANGED <<courses, enrolledCourses, attendanceRecords, issued,
                 nextSession, now, nops, enrollResult>>

NextFaulty ==
  \/ NextStored
  \/ \E r \in 1..MaxReq : EnrollSaveFails(r)
  \/ \E r \in 1..MaxReq : EnrollProfileFails(r)
  \/ \E r \in 1..MaxReq : DropSaveFails(r)
  \/ \E r \in 1..MaxReq : DropProfileFails(r)

SpecFaulty == Init /\ [][NextFaulty]_vars

(***************************************************************************)
(* Course administration beside enrollment: PUT /courses/:id and           *)
(* DELETE /courses/:id of the professors, POST /courses/:id/enroll of the  *)
(* students.                                                               *)
(***************************************************************************)

\* validateUpdateCourse: capacity, when present, is an integer of 1..500
CapacityMin == 1
CapacityMax == 500

validateUpdateCourse(body) ==
  "capacity" \in body.fields
  => (body.capacity >= CapacityMin /\ body.capacity <= CapacityMax)

\* the bodies followed: a capacity, a publication flag, an empty list of
\* enrollments
Bodies ==
  {[NoBody EXCEPT !.fields = {"capacity"}, !.capacity = k] : k \in 0..MaxCapacity}
  \cup {[NoBody EXCEPT !.fields = {"isPublished"}, !.isPublished = b] : b \in BOOLEAN}
  \cup {[NoBody EXCEPT !.fields = {"enrolledStudents"}]}

\* Course.findByIdAndUpdate(id, updateData): $set of every field of the body
findByIdAndUpdate(stored, updateData) ==
  [stored EXCEPT
     !.capacity = IF "capacity" \in updateData.fields
                  THEN updateData.capacity ELSE @,
     !.isPublished = IF "isPublished" \in updateData.fields
                     THEN updateData.isPublished ELSE @,
     !.enrolledStudents = IF "enrolledStudents" \in updateData.fields
                          THEN updateData.enrolledStudents ELSE @]

\* updateCourse up to `await Course.findById(id)`
UpdateFind(r, u, id, body) ==
  /\ Slot(r)
  /\ nops' = nops + 1
  /\ IF ~validateUpdateCourse(body)
     THEN RespondNow("update", u, 400, "Validation failed") /\ UNCHANGED reqs
     ELSE /\ reqs' = [reqs EXCEPT ![r] =
                        [NoReq EXCEPT !.op = "update", !.user = u, !.cid = id,
                                      !.pc = "found", !.snap = findById(id),
                                      !.body = body]]
          /\ UNCHANGED resp
  /\ UNCHANGED <<courses, enrolledCourses, attendanceRecords, issued,
                 nextSession, now, enrollResult>>

\* updateCourse from the result of findById to its response
UpdateWrite(r) ==
  LET course == reqs[r].snap
      u == reqs[r].user
  IN
  /\ reqs[r].op = "update" /\ reqs[r].pc = "found"
  /\ IF course = Null
     THEN Respond(r, 404, "Course not found") /\ UNCHANGED courses
     ELSE IF ~isOwner(course, u)
     THEN Respond(r, 403, "You can only update your own courses")
          /\ UNCHANGED courses
     ELSE /\ courses' = [courses EXCEPT ![course.id] =
                           findByIdAndUpdate(@, reqs[r].body)]
          /\ Respond(r, 200, "Course updated successfully")
  /\ UNCHANGED <<enrolledCourses, attendanceRecords, issued, nextSession, now,
                 nops, enrollResult>>

\* deleteCourse up to `await Course.findById(id)`
DeleteFind(r, u, id) ==
  /\ Slot(r)
  /\ reqs' = [reqs EXCEPT ![r] = [NoReq EXCEPT !.op = "delete", !.user = u, !.cid = id,
                                                !.pc = "found", !.snap = findById(id)]]
  /\ nops' = nops + 1
  /\ UNCHANGED <<courses, enrolledCourses, attendanceRecords, issued,
                 nextSession, now, resp, enrollResult>>

\* deleteCourse from the result of findById to the result of course.save():
\* the save sends the one modified path, isActive
DeleteSave(r) ==
  LET course == reqs[r].snap
      u == reqs[r].user
  IN
  /\ reqs[r].op = "delete" /\ reqs[r].pc = "found"
  /\ IF course = Null
     THEN Respond(r, 404, "Course not found") /\ UNCHANGED courses
     ELSE IF ~isOwner(course, u)
     THEN Respond(r, 403, "You can only delete your own courses")
          /\ UNCHANGED courses
     ELSE /\ courses' = [courses EXCEPT ![course.id].isActive = FALSE]
          /\ reqs' = [reqs EXCEPT ![r].pc = "saved"]
          /\ UNCHANGED resp
  /\ UNCHANGED <<enrolledCourses, attendanceRecords, issued, nextSession, now,
                 nops, enrollResult>>

\* deleteCourse from the result of save() on: the course is pulled from the
\* profile of every student the course it read shows enrolled
DeleteProfiles(r) ==
  /\ reqs[r].op = "delete" /\ reqs[r].pc = "saved"
  /\ enrolledCourses' =
       [u \in Users |->
          IF \E i \in 1..Len(reqs[r].snap.enrolledStudents) :
               /\ reqs[r].snap.enrolledStudents[i].student = u
               /\ reqs[r].snap.enrolledStudents[i].status = "enrolled"
          THEN enrolledCourses[u] \ {reqs[r].snap.id}
          ELSE enrolledCourses[u]]
  /\ Respond(r, 200, "Course deleted successfully")
  /\ UNCHANGED <<courses, attendanceRecords, issued, nextSession, now, nops,
                 enrollResult>>

NextAdmin ==
  \/ \E r \in 1..MaxReq, u \in Professors, id \in CourseIds, body \in Bodies :
       UpdateFind(r, u, id, body)
  \/ \E r \in 1..MaxReq : UpdateWrite(r)
  \/ \E r \in 1..MaxReq, u \in Professors, id \in CourseIds : DeleteFind(r, u, id)
  \/ \E r \in 1..MaxReq : DeleteSave(r)
  \/ \E r \in 1..MaxReq : DeleteProfiles(r)
  \/ \E r \in 1..MaxReq, u \in Students, id \in CourseIds : EnrollFind(r, u, id)
  \/ \E r \in 1..MaxReq : EnrollSave(r)
  \/ \E r \in 1..MaxReq : EnrollProfile(r)

SpecAdmin == Init /\ [][NextAdmin]_vars

(***************************************************************************)
(* Progress.  A request in flight waits for one database round trip; the   *)
(* database answers every query and the event loop runs every callback     *)
(* whose promise has settled, so every continuation step is taken at some  *)
(* time after it has become possible: weak fairness of each step of each   *)
(* slot.  Followed with one student, one professor and the stored course.  *)
(***************************************************************************)
NextLive ==
  \/ \E r \in 1..MaxReq : EnrollFind(r, "s1", "c1")
  \/ \E r \in 1..MaxReq : EnrollSave(r)
  \/ \E r \in 1..MaxReq : EnrollProfile(r)
  \/ \E r \in 1..MaxReq : DropFind(r, "s1", "c1")
  \/ \E r \in 1..MaxReq : DropSave(r)
  \/ \E r \in 1..MaxReq : DropProfile(r)
  \/ \E r \in 1..MaxReq, qr \in issued \cup Forged : RecordFind(r, "s1", qr)
  \/ \E r \in 1..MaxReq : RecordCheck(r)
  \/ \E r \in 1..MaxReq : GenerateFind(r, "p1", "c1")
  \/ \E r \in 1..MaxReq : GenerateRespond(r)
  \/ \E r \in 1..MaxReq : StatsFind(r, "p1", "c1")
  \/ \E r \in 1..MaxReq : StatsRespond(r)

\* the step that the request in slot r is waiting for
Continue(r) ==
  \/ EnrollSave(r) \/ EnrollProfile(r)
  \/ DropSave(r) \/ DropProfile(r)
  \/ RecordCheck(r)
  \/ GenerateRespond(r)
  \/ StatsRespond(r)

Fairness == \A r \in 1..MaxReq : WF_vars(Continue(r))

SpecLive == Init /\ [][NextLive]_vars /\ Fairness

(***************************************************************************)
(* Enroll and drop requests of different students side by side: a student  *)
(* sends a request only when none of their own is in flight.               *)
(***************************************************************************)
NoneInFlight(u) == \A r \in 1..MaxReq : reqs[r].user # u

NextApart ==
  \/ \E r \in 1..MaxReq, u \in Students, id \in CourseIds :
       NoneInFlight(u) /\ EnrollFind(r, u, id)
  \/ \E r \in 1..MaxReq : EnrollSave(r)
  \/ \E r \in 1..MaxReq : EnrollProfile(r)
  \/ \E r \in 1..MaxReq, u \in Students, id \in CourseIds :
       NoneInFlight(u) /\ DropFind(r, u, id)
  \/ \E r \in 1..MaxReq : DropSave(r)
  \/ \E r \in 1..MaxReq : DropProfile(r)

SpecApart == Init /\ [][NextApart]_vars

----------------------------------------------------------------------------
(***************************************************************************)
(* Properties.                                                             *)
(***************************************************************************)
MsgEnrolled == "Successfully enrolled in course"
MsgFull == "Course is at full capacity"
MsgAlready == "Student is already enrolled in this course"
MsgNotEnrolled == "Student is not enrolled in this course"
MsgDuplicate == "Attendance already recorded for today"

\* the step in which the request of slot r, being at pc of op, runs on
StepOf(r, op, pc) == reqs[r].op = op /\ reqs[r].pc = pc /\ reqs'[r] # reqs[r]

Indexes(course) == 1..Len(course.enrolledStudents)

HoldsEnrolled(course, u) ==
  \E i \in Indexes(course) : /\ course.enrolledStudents[i].student = u
                             /\ course.enrolledStudents[i].status = "enrolled"

HoldsDropped(course, u) ==
  /\ ~HoldsEnrolled(course, u)
  /\ \E i \in Indexes(course) : /\ course.enrolledStudents[i].student = u
                                /\ course.enrolledStudents[i].status = "dropped"

\* C1: in every reachable state every course has at most `capacity` records
\* with status enrolled.
CapacityNeverExceeded ==
  \A c \in DOMAIN courses : enrolledCount(courses[c]) <= courses[c].capacity

\* C2: when the N students have each sent one enroll request for the course,
\* in any interleaving, and nothing else was requested, and N exceeds the
\* capacity C, then exactly C of them succeeded and exactly N-C were told the
\* course is at full capacity.
AllEnrolledOnce ==
  /\ nops = Cardinality(Students)
  /\ \A r \in 1..MaxReq : Free(r)
  /\ \A s \in Students : enrollResult[s] \notin {"", "Course not found"}

ExactlyCapacitySucceed ==
  (AllEnrolledOnce /\ Cardinality(Students) > courses["c1"].capacity)
  => /\ Cardinality({s \in Students : enrollResult[s] = MsgEnrolled})
          = courses["c1"].capacity
     /\ Cardinality({s \in Students : enrollResult[s] = MsgFull})
          = Cardinality(Students) - courses["c1"].capacity

\* C3: an enroll request of a student whose record is dropped, on a course
\* that it read with as many enrolled records as its capacity, is answered
\* "Course is at full capacity" and changes no course document.
ReactivationChecksCapacity ==
  [][\A r \in 1..MaxReq :
       (/\ StepOf(r, "enroll", "found")
        /\ reqs[r].snap # Null
        /\ HoldsDropped(reqs[r].snap, reqs[r].user)
        /\ enrolledCount(reqs[r].snap) >= reqs[r].snap.capacity)
       => /\ resp' = [op |-> "enroll", user |-> reqs[r].user, status |-> 400,
                      message |-> MsgFull]
          /\ courses' = courses]_vars

\* C4: a generated payload submitted later than its timestamp plus the
\* validity of 30 minutes is rejected and stores no record, and one submitted
\* at its very timestamp by a student who is enrolled and has no record of
\* that day is accepted.
PassesEnrollment(r) ==
  /\ reqs[r].snap # Null
  /\ reqs[r].snap.isActive /\ reqs[r].snap.isPublished
  /\ findEnrollment(reqs[r].snap, reqs[r].user) # 0
  /\ reqs[r].snap.enrolledStudents[findEnrollment(reqs[r].snap, reqs[r].user)].status
       = "enrolled"

KeyOf(r) == attendanceKey(reqs[r].cid, reqs[r].user, now)

ExpiredPayloadRejected ==
  [][\A r \in 1..MaxReq :
       (StepOf(r, "record", "found") /\ reqs[r].qr \in issued)
       => /\ (now > reqs[r].qr.timestamp + ValidityMs)
               => (resp'.status # 200 /\ attendanceRecords' = attendanceRecords)
          /\ (/\ now = reqs[r].qr.timestamp
              /\ PassesEnrollment(r)
              /\ KeyOf(r) \notin DOMAIN attendanceRecords)
               => resp'.status = 200]_vars

\* C5: of the submissions of one student for one course on one day exactly
\* one stores a record: a submission that finds the key free stores the one
\* record of that key and succeeds, every submission that finds the key taken
\* is answered "Attendance already recorded for today" and stores nothing.
\* The key is the one that the submission computes, from the day it reads
\* first.
OneRecordPerKey ==
  /\ [](\A k \in DOMAIN attendanceRecords :
          k[1] = attendanceRecords[k].courseId
          /\ k[2] = attendanceRecords[k].studentId)
  /\ [][\A r \in 1..MaxReq :
          StepOf(r, "record", "found")
          => IF ~PassesEnrollment(r)
             THEN attendanceRecords' = attendanceRecords /\ resp'.status # 200
             ELSE IF KeyOf(r) \in DOMAIN attendanceRecords
             THEN /\ attendanceRecords' = attendanceRecords
                  /\ resp' = [op |-> "record", user |-> reqs[r].user,
                              status |-> 400, message |-> MsgDuplicate]
             ELSE /\ resp'.status = 200
                  /\ DOMAIN attendanceRecords' = DOMAIN attendanceRecords \cup {KeyOf(r)}
                  /\ \A k \in DOMAIN attendanceRecords :
                       attendanceRecords'[k] = attendanceRecords[k]]_vars

\* a second submission of the same day has been answered as a duplicate
DuplicateAnswered ==
  /\ resp.op = "record" /\ resp.message = MsgDuplicate
  /\ attendanceKey("c1", resp.user, now) \in DOMAIN attendanceRecords

\* C6: a stored attendance record is never removed and none of its fields
\* ever changes, whatever is requested afterwards.
RecordsImmutable ==
  [][\A k \in DOMAIN attendanceRecords :
       /\ k \in DOMAIN attendanceRecords'
       /\ attendanceRecords'[k] = attendanceRecords[k]]_vars

\* a student has dropped the course after their attendance was recorded, and
\* the record is still there
DroppedAfterRecord ==
  /\ resp.op = "drop" /\ resp.status = 200
  /\ \E k \in DOMAIN attendanceRecords :
       k[2] = resp.user /\ attendanceRecords[k].recordedAt < now

\* C7: generate-qr and the statistics read of an existing course succeed
\* only for the course's professor; every other caller is answered 403, gets
\* no payload, and nothing stored changes.
OwnerOnly ==
  [][\A r \in 1..MaxReq :
       ((StepOf(r, "generate", "found") \/ StepOf(r, "stats", "found"))
        /\ reqs[r].snap # Null)
       => IF reqs[r].user = courses[reqs[r].cid].professor
          THEN resp'.status = 200
          ELSE /\ resp'.status = 403 /\ resp'.user = reqs[r].user
               /\ UNCHANGED <<courses, enrolledCourses, attendanceRecords,
                              issued, nextSession>>]_vars

\* a professor who does not own the course has asked for a payload
StrangerRefused ==
  /\ resp.op = "generate" /\ resp.status = 403
  /\ resp.user # courses["c1"].professor
  /\ issued = {}

\* C8: no course holds two records with status enrolled of one student.
OneEnrolledRecordPerStudent ==
  \A c \in DOMAIN courses : \A s \in Students :
    Cardinality({i \in Indexes(courses[c]) :
                   /\ courses[c].enrolledStudents[i].student = s
                   /\ courses[c].enrolledStudents[i].status = "enrolled"}) <= 1

\* C9: an enroll request of a student who holds an enrolled record on the
\* course it read is answered "Student is already enrolled in this course",
\* and leaves the course documents and the profiles as they were.
AlreadyEnrolledRejected ==
  [][\A r \in 1..MaxReq :
       (/\ StepOf(r, "enroll", "found")
        /\ reqs[r].snap # Null
        /\ HoldsEnrolled(reqs[r].snap, reqs[r].user))
       => /\ resp' = [op |-> "enroll", user |-> reqs[r].user, status |-> 400,
                      message |-> MsgAlready]
          /\ UNCHANGED <<courses, enrolledCourses>>]_vars

\* C10: a drop request of a student who holds no enrolled record on the
\* course it read (no record, or a dropped one) is answered "Student is not
\* enrolled in this course" and changes nothing.
DropRequiresEnrolled ==
  [][\A r \in 1..MaxReq :
       (/\ StepOf(r, "drop", "found")
        /\ reqs[r].snap # Null
        /\ ~HoldsEnrolled(reqs[r].snap, reqs[r].user))
       => /\ resp' = [op |-> "drop", user |-> reqs[r].user, status |-> 400,
                      message |-> MsgNotEnrolled]
          /\ UNCHANGED <<courses, enrolledCourses, attendanceRecords>>]_vars

\* C11: Enroll, Drop, Enroll of one student, each successful and nothing else
\* requested (the third request finds the student's record dropped, so the
\* first two were the enroll that made it and the drop that set it), ends
\* with the student enrolled, with exactly one record of the student, and
\* with the enrolled count the first enroll left: one more than the count
\* after the drop.
RecordsOf(course, u) ==
  {i \in Indexes(course) : course.enrolledStudents[i].student = u}

EnrollDropEnroll ==
  [][\A r \in 1..MaxReq :
       (/\ StepOf(r, "enroll", "found")
        /\ nops = 3
        /\ \A q \in 1..MaxReq \ {r} : Free(q)
        /\ reqs[r].snap # Null
        /\ HoldsDropped(reqs[r].snap, reqs[r].user))
       => /\ reqs'[r].pc = "saved"
          /\ HoldsEnrolled(courses'[reqs[r].cid], reqs[r].user)
          /\ Cardinality(RecordsOf(courses'[reqs[r].cid], reqs[r].user)) = 1
          /\ enrolledCount(courses'[reqs[r].cid]) = enrolledCount(reqs[r].snap) + 1]_vars

\* the third request of the sequence has saved the course
ReenrolledAfterDrop ==
  /\ nops = 3
  /\ \E r \in 1..MaxReq :
       /\ reqs[r].op = "enroll" /\ reqs[r].pc = "saved"
       /\ HoldsDropped(reqs[r].snap, reqs[r].user)
       /\ HoldsEnrolled(courses[reqs[r].cid], reqs[r].user)
       /\ \A q \in 1..MaxReq \ {r} : Free(q)

\* C12: a record with status completed keeps that status in every step, and
\* no step gives a record the status completed that did not have it.
CompletedIsTerminal ==
  [][\A c \in DOMAIN courses :
       /\ \A i \in Indexes(courses[c]) :
            courses[c].enrolledStudents[i].status = "completed"
            => /\ i \in Indexes(courses'[c])
               /\ courses'[c].enrolledStudents[i] = courses[c].enrolledStudents[i]
       /\ \A i \in Indexes(courses'[c]) :
            courses'[c].enrolledStudents[i].status = "completed"
            => /\ i \in Indexes(courses[c])
               /\ courses[c].enrolledStudents[i].status = "completed"]_vars

\* C13: a submission of a student who holds no enrolled record on the course
\* it read (none, or records that are dropped or completed), the course
\* being active and published, is answered "You are not enrolled in this
\* course" and stores no attendance record.
MsgNoAttendee == "You are not enrolled in this course"

NotEnrolledRefused ==
  [][\A r \in 1..MaxReq :
       (/\ StepOf(r, "record", "found")
        /\ reqs[r].snap # Null
        /\ reqs[r].snap.isActive /\ reqs[r].snap.isPublished
        /\ ~HoldsEnrolled(reqs[r].snap, reqs[r].user))
       => /\ resp' = [op |-> "record", user |-> reqs[r].user, status |-> 403,
                      message |-> MsgNoAttendee]
          /\ attendanceRecords' = attendanceRecords]_vars

\* a student whose record is completed has been refused
CompletedRefused ==
  /\ resp.op = "record" /\ resp.status = 403 /\ resp.message = MsgNoAttendee
  /\ \E i \in Indexes(courses["c1"]) :
       /\ courses["c1"].enrolledStudents[i].student = resp.user
       /\ courses["c1"].enrolledStudents[i].status = "completed"
  /\ attendanceRecords = <<>>

\* C14: a submission whose courseId names no stored course, or a course it
\* read as deactivated or unpublished, is answered 404 "Course not found" or
\* 400 "Course is not available for attendance" and stores no attendance
\* record, whatever enrollment the student holds.
MsgNoCourse == "Course not found"
MsgUnavailable == "Course is not available for attendance"

UnavailableCourseRefused ==
  [][\A r \in 1..MaxReq :
       StepOf(r, "record", "found")
       => /\ reqs[r].snap = Null
               => /\ resp' = [op |-> "record", user |-> reqs[r].user,
                              status |-> 404, message |-> MsgNoCourse]
                  /\ attendanceRecords' = attendanceRecords
          /\ (reqs[r].snap # Null /\ (~reqs[r].snap.isActive \/ ~reqs[r].snap.isPublished))
               => /\ resp' = [op |-> "record", user |-> reqs[r].user,
                              status |-> 400, message |-> MsgUnavailable]
                  /\ attendanceRecords' = attendanceRecords]_vars

\* an enrolled student has been refused on a course that is not available
EnrolledRefusedOnUnavailable ==
  /\ resp.op = "record" /\ resp.status = 400 /\ resp.message = MsgUnavailable
  /\ HoldsEnrolled(courses["c1"], resp.user)
  /\ ~courses["c1"].isActive \/ ~courses["c1"].isPublished
  /\ attendanceRecords = <<>>

\* C15: no submission passes the validation of its payload unless the
\* payload is parseable, has the type tag course_attendance and has every
\* field of the format: courseId, courseCode, sessionId, professor (the
\* issuer) and timestamp (the time of issue).
Structural(qr) ==
  /\ qr.wellFormed
  /\ qr.type = "course_attendance"
  /\ qr.courseId # NoQr.courseId /\ qr.courseCode # NoQr.courseCode
  /\ qr.sessionId # NoQr.sessionId
  /\ qr.professor # NoQr.professor /\ qr.timestamp # NoQr.timestamp

InvalidDescriptorRejected ==
  \A r \in 1..MaxReq : reqs[r].op = "record" => Structural(reqs[r].qr)

\* C16: an enroll request that read no course, or an unpublished course, or
\* whose caller is no student, is answered with an error (404, 400 "Course
\* is not published", 403) and leaves every course document and every
\* profile as it was.
MsgUnpublished == "Course is not published"

EnrollPreconditions ==
  [][\A r \in 1..MaxReq :
       (/\ StepOf(r, "enroll", "found")
        /\ \/ reqs[r].snap = Null
           \/ ~reqs[r].snap.isPublished
           \/ role(reqs[r].user) # "student")
       => /\ resp'.op = "enroll" /\ resp'.user = reqs[r].user
          /\ resp'.status = (IF reqs[r].snap = Null THEN 404
                             ELSE IF ~reqs[r].snap.isPublished THEN 400 ELSE 403)
          /\ Free(r)'
          /\ UNCHANGED <<courses, enrolledCourses>>]_vars

\* a student has been refused on an unpublished course with a free seat
UnpublishedRefused ==
  /\ resp.op = "enroll" /\ resp.status = 400 /\ resp.message = MsgUnpublished
  /\ role(resp.user) = "student"
  /\ ~courses["c1"].isPublished
  /\ courses["c1"].enrolledStudents = <<>>
  /\ enrolledCourses[resp.user] = {}

\* C17: whenever no enroll or drop request of a student is in flight, the
\* course is in the student's profile list exactly if the student holds an
\* enrolled record on the course.
Quiet(s) ==
  \A r \in 1..MaxReq : ~(reqs[r].user = s /\ reqs[r].op \in {"enroll", "drop"})

ProfileMatchesCourse ==
  \A s \in Students : \A c \in DOMAIN courses :
    Quiet(s) => (c \in enrolledCourses[s] <=> HoldsEnrolled(courses[c], s))

\* C18: an enroll, drop or record request that is answered with an error has
\* left nothing written: if the answer comes before its save, the course
\* documents, the profiles and the attendance Map are unchanged by the step;
\* if it comes after its save, and the course document is still the one this
\* request saved, then the course document is again the one the request
\* read, and the profiles and the Map are unchanged.
TrackedChange(r) ==
  IF reqs[r].op = "enroll"
  THEN enrollStudentMethod(reqs[r].snap, reqs[r].user).delta
  ELSE dropStudentMethod(reqs[r].snap, reqs[r].user).delta

AnsweredError(r) == Free(r)' /\ resp'.status # 200

AllOrNothing ==
  [][\A r \in 1..MaxReq :
       /\ ((\E op \in {"enroll", "drop", "record"} : StepOf(r, op, "found"))
           /\ AnsweredError(r))
          => UNCHANGED <<courses, enrolledCourses, attendanceRecords>>
       /\ ((\E op \in {"enroll", "drop"} : StepOf(r, op, "saved"))
           /\ AnsweredError(r)
           /\ courses[reqs[r].cid] = save(reqs[r].snap, reqs[r].snap, TrackedChange(r)))
          => /\ courses'[reqs[r].cid] = reqs[r].snap
             /\ UNCHANGED <<enrolledCourses, attendanceRecords>>]_vars

\* C19: an enroll or drop request whose course.save() or profile update
\* rejects with a driver error is answered 500.
StorageFailureIs500 ==
  [][\A r \in 1..MaxReq :
       (/\ \E op \in {"enroll", "drop"}, pc \in {"found", "saved"} : StepOf(r, op, pc)
        /\ Free(r)'
        /\ resp'.message = StorageError)
       => resp'.status = 500]_vars

\* C20: no step of a generate-qr request, whatever its answer, changes a
\* course document, a profile or the attendance Map: what it generates is
\* only sent in the response.
GenerateStep(r) ==
  /\ reqs'[r] # reqs[r]
  /\ reqs[r].op = "generate" \/ reqs'[r].op = "generate"

GenerateStoresNothing ==
  [][\A r \in 1..MaxReq :
       GenerateStep(r)
       => UNCHANGED <<courses, enrolledCourses, attendanceRecords>>]_vars

\* a payload has been generated for a course with an enrollment and an
\* attendance record
GeneratedBesideRecords ==
  /\ resp.op = "generate" /\ resp.status = 200
  /\ issued # {}
  /\ courses["c1"].enrolledStudents # <<>>
  /\ attendanceRecords # <<>>

\* C21: a generated payload, submitted as generated within 30 minutes of its
\* timestamp by a student whom the course it read shows enrolled, the course
\* being active and published, and who has no record of that course and day,
\* is answered 200; the Map then holds under the submission's key a record
\* of that course and student with status present and the payload's
\* sessionId, and the response returns that record: its status and its
\* sessionId.
RoundTripCase(r) ==
  /\ StepOf(r, "record", "found")
  /\ reqs[r].qr \in issued
  /\ now <= reqs[r].qr.timestamp + ValidityMs
  /\ PassesEnrollment(r)
  /\ KeyOf(r) \notin DOMAIN attendanceRecords

RoundTripStored(r) ==
  /\ resp' = [op |-> "record", user |-> reqs[r].user, status |-> 200,
              message |-> "Attendance recorded successfully"]
  /\ KeyOf(r) \in DOMAIN attendanceRecords'
  /\ attendanceRecords'[KeyOf(r)].status = "present"
  /\ attendanceRecords'[KeyOf(r)].qrSessionId = reqs[r].qr.sessionId
  /\ attendanceRecords'[KeyOf(r)].courseId = reqs[r].qr.courseId
  /\ attendanceRecords'[KeyOf(r)].studentId = reqs[r].user

RoundTripReturned(r) ==
  LET data == attendanceResponse(attendanceRecords'[KeyOf(r)]) IN
  /\ data.status = "present"
  /\ "qrSessionId" \in DOMAIN data
  /\ data["qrSessionId"] = reqs[r].qr.sessionId

RoundTrip ==
  [][\A r \in 1..MaxReq :
       RoundTripCase(r) => RoundTripStored(r) /\ RoundTripReturned(r)]_vars

\* C22: the statistics a course's professor is sent, computed from the
\* course the request read and the Map, have: totalSessions, the number of
\* distinct days among the records of the course; one entry for each student
\* with an enrolled record and for no other; in each entry attendedSessions,
\* the number of that student's records of the course; and
\* totalAttendanceRecords, the number of all records of the course, those of
\* dropped students included.
CourseRecords(course) ==
  {k \in DOMAIN attendanceRecords : attendanceRecords[k].courseId = course.id}

StatsOf(r) == getAttendanceStats(reqs[r].snap, attendanceRecords, NoDate, NoDate)

StatsCorrect ==
  [][\A r \in 1..MaxReq :
       (/\ StepOf(r, "stats", "found")
        /\ reqs[r].snap # Null
        /\ isOwner(reqs[r].snap, reqs[r].user))
       => LET st == StatsOf(r)
              recs == CourseRecords(reqs[r].snap)
              listed == {st.studentStats[i].student : i \in DOMAIN st.studentStats}
          IN /\ resp'.status = 200
             /\ st.overallStats.totalSessions
                  = Cardinality({toDateString(attendanceRecords[k].date) : k \in recs})
             /\ listed = {s \in Students : HoldsEnrolled(reqs[r].snap, s)}
             /\ Len(st.studentStats) = Cardinality(listed)
             /\ \A i \in DOMAIN st.studentStats :
                  st.studentStats[i].attendedSessions
                    = Cardinality({k \in recs : attendanceRecords[k].studentId
                                                  = st.studentStats[i].student})
             /\ st.overallStats.totalAttendanceRecords = Cardinality(recs)]_vars

\* C23: the enrollment records of a course change only in the saving step of
\* an enroll or a drop request: every other step of every request leaves the
\* enrolledStudents of every course as they were.
OnlyEnrollAndDropWriteRecords ==
  [][(\E c \in DOMAIN courses :
        courses'[c].enrolledStudents # courses[c].enrolledStudents)
     => \E r \in 1..MaxReq :
          StepOf(r, "enroll", "found") \/ StepOf(r, "drop", "found")]_vars

\* C24: with the continuation steps taken fairly, every request in flight is
\* answered at some later time; its next step is possible whatever the other
\* slot holds; and the step that ends it sends the one response of the
\* request, while no other step of a request in flight sends a response.
EveryRequestCompletes ==
  /\ \A r \in 1..MaxReq : (~Free(r)) ~> Free(r)
  /\ [](\A r \in 1..MaxReq : ~Free(r) => ENABLED Continue(r))
  /\ [][\A r \in 1..MaxReq :
          (~Free(r) /\ reqs'[r] # reqs[r])
          => IF Free(r)'
             THEN resp'.op = reqs[r].op /\ resp'.user = reqs[r].user
             ELSE resp' = resp]_vars

\* every request of a run with an enroll, a generate-qr, a record and a drop
\* has been answered
AllAnswered ==
  /\ nops = MaxOps
  /\ \A r \in 1..MaxReq : Free(r)
  /\ resp.status = 200
  /\ issued # {} /\ attendanceRecords # <<>>
  /\ HoldsDropped(courses["c1"], "s1")

\* C25: every stored attendance record has the sessionId of a payload that
\* generate-qr has returned for the record's course.
RecordsFromIssued ==
  \A k \in DOMAIN attendanceRecords :
    \E qr \in issued : /\ qr.sessionId = attendanceRecords[k].qrSessionId
                       /\ qr.courseId = attendanceRecords[k].courseId

\* C26: the step of a record request that stores an attendance record is
\* taken only while the stored course holds an enrolled record of the
\* student.
RecordOnlyWhileEnrolled ==
  [][\A r \in 1..MaxReq :
       (StepOf(r, "record", "found") /\ attendanceRecords' # attendanceRecords)
       => /\ reqs[r].cid \in DOMAIN courses
          /\ HoldsEnrolled(courses[reqs[r].cid], reqs[r].user)]_vars

\* C27: an enroll request that read the course deactivated, no delete request
\* being still in flight, is answered with an error and leaves every course
\* document and every profile as it was.
NoEnrollAfterDelete ==
  [][\A r \in 1..MaxReq :
       (/\ StepOf(r, "enroll", "found")
        /\ reqs[r].snap # Null
        /\ ~reqs[r].snap.isActive
        /\ \A q \in 1..MaxReq : reqs[q].op # "delete")
       => /\ Free(r)' /\ resp'.status # 200
          /\ UNCHANGED <<courses, enrolledCourses>>]_vars

\* C28: the step of an update request whose body has a capacity, taken on a
\* course with no more enrolled records than its capacity, leaves the course
\* with no more enrolled records than its capacity.
UpdateKeepsCapacity ==
  [][\A r \in 1..MaxReq :
       (/\ StepOf(r, "update", "found")
        /\ "capacity" \in reqs[r].body.fields
        /\ reqs[r].cid \in DOMAIN courses
        /\ enrolledCount(courses[reqs[r].cid]) <= courses[reqs[r].cid].capacity)
       => enrolledCount(courses'[reqs[r].cid]) <= courses'[reqs[r].cid].capacity]_vars

\* C29: in the statistics a course's professor is sent, whatever the date
\* filter of the query, every listed student has attendedSessions at most
\* totalSessions and a rate from 0 to 100; the average rate is from 0 to 100;
\* with totalSessions 0 every rate is 0, and with no student listed the
\* average is 0.
DateFilters == {NoDate, StartMs + TickMs, DayMs}

RatesWithinBounds ==
  [][\A r \in 1..MaxReq :
       (/\ StepOf(r, "stats", "found")
        /\ reqs[r].snap # Null
        /\ isOwner(reqs[r].snap, reqs[r].user))
       => \A startDate, endDate \in DateFilters :
            LET st == getAttendanceStats(reqs[r].snap, attendanceRecords,
                                         startDate, endDate)
            IN /\ resp'.status = 200
               /\ \A i \in DOMAIN st.studentStats :
                    /\ st.studentStats[i].attendedSessions
                         <= st.studentStats[i].totalSessions
                    /\ st.studentStats[i].attendanceRate \in 0..(100 * 100)
                    /\ st.overallStats.totalSessions = 0
                         => st.studentStats[i].attendanceRate = 0
               /\ st.overallStats.averageAttendanceRate \in 0..(100 * 100)
               /\ st.studentStats = <<>>
                    => st.overallStats.averageAttendanceRate = 0]_vars

\* C30: when every student has at most one request in flight at a time, no
\* answered success is lost.  The profile update is the last step before the
\* 200 of an enroll and of a drop, so a student's profile holds the course
\* exactly if their last request answered 200 was an enroll.  With no request
\* in flight, every student with the course in their profile holds an
\* enrolled record, and every student with a record and without the course
\* in their profile holds a dropped one; an enroll is answered 200 while the
\* student's record is enrolled, a drop while it is dropped; and a student's
\* records change only in the saving step of their own request.
AcknowledgedKept ==
  /\ []((\A r \in 1..MaxReq : Free(r))
        => \A s \in Students :
             /\ "c1" \in enrolledCourses[s] => HoldsEnrolled(courses["c1"], s)
             /\ ("c1" \notin enrolledCourses[s] /\ RecordsOf(courses["c1"], s) # {})
                  => HoldsDropped(courses["c1"], s))
  /\ [][\A r \in 1..MaxReq :
          /\ StepOf(r, "enroll", "saved")
               => HoldsEnrolled(courses[reqs[r].cid], reqs[r].user)
          /\ StepOf(r, "drop", "saved")
               => HoldsDropped(courses[reqs[r].cid], reqs[r].user)]_vars
  /\ [][\A s \in Students :
          (\E i \in RecordsOf(courses["c1"], s) :
             \/ i \notin RecordsOf(courses'["c1"], s)
             \/ courses'["c1"].enrolledStudents[i] # courses["c1"].enrolledStudents[i])
          => \E r \in 1..MaxReq :
               /\ reqs[r].user = s
               /\ StepOf(r, "enroll", "found") \/ StepOf(r, "drop", "found")]_vars

\* two students have enrolled side by side, both saves coming after both
\* reads, and both hold their record
BothKept ==
  /\ \A r \in 1..MaxReq : Free(r)
  /\ \A s \in Students : /\ "c1" \in enrolledCourses[s]
                         /\ HoldsEnrolled(courses["c1"], s)
  /\ nops = Cardinality(Students)

====
